---- MODULE Spec2Model ----
\* A model of training/train_maskgit_imagenet.py: the setup done by main(), the
\* masked-token construction of train_step, and the epoch / batch / evaluation /
\* checkpoint loop that drives it.
\*
\* Numbers that are floats in the program are fixed-point here: a probability or
\* a masking rate p is the integer 100*p (Unit hundredths), a timestep t is the
\* integer 4*t (quarters of the unit interval).  The learning rate is an integer
\* number of arbitrary units.
EXTENDS Integers, Sequences, FiniteSets, TLC

VARIABLES
    config,                     \* the merged configuration (get_config), fixed for a run
    pc,                         \* position of main()
    mask_id,                    \* model.config.mask_token_id as read at setup
    learning_rate,              \* the local learning_rate of main()
    optimizer_lr,               \* the lr the AdamW optimizer was constructed with
    epoch,                      \* loop variable of the epoch loop
    batch_idx,                  \* batches of train_dataloader consumed in this epoch
    global_step,
    examples_since_last_logged,
    accel_step,                 \* accelerator.step, advanced by accumulate(model)
    sync_gradients,             \* accelerator.sync_gradients
    training,                   \* model.training (model.train() / model.eval())
    eval_i,                     \* eval batches consumed by the running eval loop
    num_eval_examples,
    progress_before_eval,       \* history: progress state when the eval loop was entered
    logged,                     \* the step of every accelerator.log call, in order
    checkpoints,                \* global steps n of the saved 'checkpoint-n', in order
    final_saves,                \* number of model.save_pretrained(output_dir) calls
    image_tokens,               \* locals of the running train_step, <<>> outside it
    class_id,
    timesteps,
    mask_prob,
    mask,
    input_ids,
    labels

progress == <<epoch, batch_idx, global_step, examples_since_last_logged, accel_step,
              sync_gradients, training, eval_i, num_eval_examples,
              progress_before_eval, logged, checkpoints, final_saves>>
locals == <<image_tokens, class_id, timesteps, mask_prob, mask, input_ids, labels>>
setup == <<mask_id, learning_rate, optimizer_lr>>
vars == <<config, pc, setup, progress, locals>>

----------------------------------------------------------------------------
\* Bounds of the model.

MaxBatch == 2           \* batch_size ranges over 1..MaxBatch
MaxSeqLen == 2          \* the tokenizer's sequence length L ranges over 0..MaxSeqLen
MaxCells == 4           \* batch_size * L is at most MaxCells
MaxEpochs == 2          \* num_train_epochs ranges over 1..MaxEpochs
MaxTrainBatches == 3    \* len(train_dataloader) ranges over 1..MaxTrainBatches
MaxAccum == 2           \* gradient_accumulation_steps ranges over 1..MaxAccum
MaxEvery == 2           \* eval_every and save_every range over 1..MaxEvery
MaxEvalBatches == 2     \* len(eval_dataloader)

----------------------------------------------------------------------------
\* Fixed-point units and the input grids.

Unit == 100
IgnoreLabel == -100
TimeGrid == 0..4
MinMaskingRates == {0, 50, 150}
ClassIds == {0, 1}
CodebookSizes == {1, 2}

Max(a, b) == IF a >= b THEN a ELSE b
Min(a, b) == IF a <= b THEN a ELSE b

\* muse.sampling.cosine_schedule: cos(t * pi / 2), decreasing from 1 to 0 on [0, 1].
\* Tabulated on the grid t/4 in hundredths.
cosine_schedule(t) ==
    CASE t = 0 -> 100
      [] t = 1 -> 92
      [] t = 2 -> 71
      [] t = 3 -> 38
      [] t = 4 -> 0

\* clip with the limit taken as an upper limit
clip_upper(x, lo) == Min(x, lo)

\* Tensor.clip(min): the elementwise maximum with the lower limit.
clip(x, lo) == Max(x, lo)

\* Tensor.round(): round to nearest, ties to even, of the rational num / den >= 0.
round(num, den) ==
    LET q == num \div den
        r == num % den
    IN  IF 2 * r < den THEN q
        ELSE IF 2 * r > den THEN q + 1
        ELSE IF q % 2 = 0 THEN q ELSE q + 1

\* (seq_len * mask_prob).round().clamp(min=1)
num_token_masked(seq_len, p) == Max(round(seq_len * p, Unit), 1)

\* argsort of seq_len independent uniform draws: a permutation of 0..seq_len-1.
RandPerms(seq_len) ==
    {f \in [1..seq_len -> 0..(seq_len - 1)] :
        \A a, b \in 1..seq_len : a # b => f[a] # f[b]}

\* mask = batch_randperm < num_token_masked.unsqueeze(-1), for one image
mask_row(perm, n) == [j \in DOMAIN perm |-> perm[j] < n]

\* torch.where(mask, mask_id, image_tokens), for one image
masked_input(m, tokens) == [j \in DOMAIN tokens |-> IF m[j] THEN mask_id ELSE tokens[j]]

\* torch.where(mask, image_tokens, -100), for one image
masked_labels(m, tokens) == [j \in DOMAIN tokens |-> IF m[j] THEN tokens[j] ELSE IgnoreLabel]

\* class ids fed in without the shift by the codebook size
class_ids_unshifted(c) == c

\* batch["class_id"] + vq_model.num_embeddings
class_ids(c) == c + config.num_embeddings

\* torch.cat([head.unsqueeze(-1), row], dim=-1), for one image
cat(head, row) == <<head>> \o row

----------------------------------------------------------------------------
\* Configurations.  Two families of runs are explored: one that varies what the
\* mask construction reads (batch shape, codebook, mask id, masking-rate floor)
\* over a one-batch run, and one that varies what the training loop reads over
\* a batch of one one-token image.

MaskConfigs ==
    {c \in [batch_size : 1..MaxBatch,
            seq_len : 0..MaxSeqLen,
            num_embeddings : CodebookSizes,
            mask_token_id : 0..(Cardinality(CodebookSizes) + Cardinality(ClassIds)),
            min_masking_rate : MinMaskingRates,
            gradient_accumulation_steps : {1},
            num_processes : {1},
            is_main_process : {TRUE},
            learning_rate : {3},
            scale_lr : {FALSE},
            num_train_epochs : {1},
            train_len : {1},
            eval_len : {1},
            max_eval_examples : {1},
            log_every : {1},
            eval_every : {1},
            save_every : {1}] :
        /\ c.batch_size * c.seq_len <= MaxCells
        /\ c.mask_token_id <= c.num_embeddings + Cardinality(ClassIds)}

LoopConfigs ==
    [batch_size : {1},
     seq_len : {1},
     num_embeddings : {1},
     mask_token_id : {1 + Cardinality(ClassIds)},
     min_masking_rate : {0},
     gradient_accumulation_steps : 1..MaxAccum,
     num_processes : {2},
     is_main_process : BOOLEAN,
     learning_rate : {3},
     scale_lr : BOOLEAN,
     num_train_epochs : 1..MaxEpochs,
     train_len : 1..MaxTrainBatches,
     eval_len : {MaxEvalBatches},
     max_eval_examples : 1..(MaxEvalBatches + 1),
     log_every : {2},
     eval_every : 1..MaxEvery,
     save_every : 1..MaxEvery]

NoLocals ==
    /\ image_tokens = <<>>
    /\ class_id = <<>>
    /\ timesteps = <<>>
    /\ mask_prob = <<>>
    /\ mask = <<>>
    /\ input_ids = <<>>
    /\ labels = <<>>

\* The process has read its configuration; nothing of main() has run yet.
Start ==
    /\ pc = "setup"
    /\ mask_id = -1
    /\ learning_rate = 0
    /\ optimizer_lr = 0
    /\ epoch = 0
    /\ batch_idx = 0
    /\ global_step = 0
    /\ examples_since_last_logged = 0
    /\ accel_step = 0
    /\ sync_gradients = FALSE
    /\ training = TRUE
    /\ eval_i = 0
    /\ num_eval_examples = 0
    /\ progress_before_eval = <<>>
    /\ logged = <<>>
    /\ checkpoints = <<>>
    /\ final_saves = 0
    /\ NoLocals

Init == config \in MaskConfigs /\ Start
InitLoop == config \in LoopConfigs /\ Start

----------------------------------------------------------------------------
\* main(), from get_config() to the start of the epoch loop.

\* learning_rate as main() computes it into its local variable
scaled_learning_rate ==
    IF config.scale_lr
    THEN config.learning_rate * config.batch_size * config.num_processes
         * config.gradient_accumulation_steps
    ELSE config.learning_rate

\* AdamW(model.parameters(), lr=optimizer_config.learning_rate, ...)
adamw_lr == config.learning_rate

Setup ==
    /\ pc = "setup"
    /\ mask_id' = config.mask_token_id
    /\ learning_rate' = scaled_learning_rate
    /\ optimizer_lr' = adamw_lr
    /\ pc' = IF config.num_train_epochs > 0 THEN "train" ELSE "final"
    /\ UNCHANGED <<config, progress, locals>>

----------------------------------------------------------------------------
\* train_step(batch)

\* with accelerator.accumulate(model) (the accelerate library): one more step of the
\* accumulation cycle;
\* gradients are synchronised on every gradient_accumulation_steps-th entry.
accumulate_step(step) == step + 1
accumulate_sync(step) == step % config.gradient_accumulation_steps = 0

train_step ==
    LET N == config.batch_size
        L == config.seq_len
    IN  /\ accel_step' = accumulate_step(accel_step)
        /\ sync_gradients' = accumulate_sync(accel_step')
        /\ \E tokens \in [1..N -> [1..L -> 0..(config.num_embeddings - 1)]],
              cls \in [1..N -> ClassIds],
              ts \in [1..N -> TimeGrid],
              batch_randperm \in [1..N -> RandPerms(L)] :
              LET p == [i \in 1..N |-> clip(cosine_schedule(ts[i]), config.min_masking_rate)]
                  m == [i \in 1..N |-> mask_row(batch_randperm[i], num_token_masked(L, p[i]))]
              IN  /\ image_tokens' = tokens
                  /\ class_id' = cls
                  /\ timesteps' = ts
                  /\ mask_prob' = p
                  /\ mask' = m
                  /\ input_ids' = [i \in 1..N |->
                                    cat(class_ids(cls[i]), masked_input(m[i], tokens[i]))]
                  /\ labels' = [i \in 1..N |->
                                    cat(IgnoreLabel, masked_labels(m[i], tokens[i]))]

\* train_step returned: its locals are gone.
Return ==
    /\ image_tokens' = <<>>
    /\ class_id' = <<>>
    /\ timesteps' = <<>>
    /\ mask_prob' = <<>>
    /\ mask' = <<>>
    /\ input_ids' = <<>>
    /\ labels' = <<>>

----------------------------------------------------------------------------
\* The epoch loop of main().

\* for batch in train_dataloader / for epoch in range(first_epoch, num_train_epochs)
NextBatch ==
    IF batch_idx + 1 < config.train_len
    THEN /\ batch_idx' = batch_idx + 1
         /\ epoch' = epoch
         /\ pc' = "train"
    ELSE IF epoch + 1 < config.num_train_epochs
    THEN /\ batch_idx' = 0
         /\ epoch' = epoch + 1
         /\ pc' = "train"
    ELSE /\ batch_idx' = batch_idx + 1
         /\ epoch' = epoch
         /\ pc' = "final"

\* loss, avg_loss, avg_masking_rate = train_step(batch, ...)
TrainStep ==
    /\ pc = "train"
    /\ train_step
    /\ pc' = "backward"
    /\ UNCHANGED <<config, setup, epoch, batch_idx, global_step,
                   examples_since_last_logged, training, eval_i, num_eval_examples,
                   progress_before_eval, logged, checkpoints, final_saves>>

\* accelerator.backward(loss) ... optimizer.zero_grad(), then the bookkeeping done
\* when the accelerator synchronised gradients, up to the start of the eval loop.
OptimizerStep ==
    /\ pc = "backward"
    /\ Return
    /\ IF sync_gradients
       THEN /\ examples_since_last_logged' =
                examples_since_last_logged
                + config.batch_size * config.gradient_accumulation_steps
            /\ logged' = IF global_step % config.log_every = 0
                         THEN Append(logged, global_step) ELSE logged
            /\ IF global_step % config.eval_every = 0
               THEN /\ pc' = "eval"
                    /\ training' = FALSE
                    /\ eval_i' = 0
                    /\ num_eval_examples' = 0
                    /\ progress_before_eval' =
                        <<global_step, examples_since_last_logged', accel_step>>
               ELSE /\ pc' = "save"
                    /\ UNCHANGED <<training, eval_i, num_eval_examples,
                                   progress_before_eval>>
            /\ UNCHANGED <<epoch, batch_idx>>
       ELSE /\ NextBatch
            /\ UNCHANGED <<examples_since_last_logged, logged, training, eval_i,
                           num_eval_examples, progress_before_eval>>
    /\ UNCHANGED <<config, setup, global_step, accel_step, sync_gradients,
                   checkpoints, final_saves>>

\* eval_loss += eval_step(batch): train_step under torch.no_grad()
EvalStep ==
    /\ pc = "eval"
    /\ train_step
    /\ pc' = "eval_next"
    /\ UNCHANGED <<config, setup, epoch, batch_idx, global_step,
                   examples_since_last_logged, training, eval_i, num_eval_examples,
                   progress_before_eval, logged, checkpoints, final_saves>>

\* the rest of the eval loop body, and the code after the loop when it ends:
\* accelerator.log({"eval_loss": ...}, step=global_step) and model.train()
EvalNext ==
    /\ pc = "eval_next"
    /\ Return
    /\ eval_i' = eval_i + 1
    /\ num_eval_examples' = num_eval_examples + config.batch_size
    /\ IF num_eval_examples' >= config.max_eval_examples \/ eval_i' >= config.eval_len
       THEN /\ pc' = "save"
            /\ logged' = Append(logged, global_step)   \* the eval_loss call
            /\ training' = TRUE
       ELSE /\ pc' = "eval"
            /\ logged' = logged
            /\ training' = training
    /\ UNCHANGED <<config, setup, epoch, batch_idx, global_step,
                   examples_since_last_logged, accel_step, sync_gradients,
                   progress_before_eval, checkpoints, final_saves>>

\* the checkpoint named after the step count following the increment
save_state_after_increment(saved, step) == Append(saved, step + 1)

\* accelerator.save_state(output_dir / f"checkpoint-{global_step}")
save_state(saved, step) == Append(saved, step)

\* if global_step % save_every == 0: ... ; global_step += 1
SaveStep ==
    /\ pc = "save"
    /\ checkpoints' = IF global_step % config.save_every = 0 /\ config.is_main_process
                      THEN save_state(checkpoints, global_step)
                      ELSE checkpoints
    /\ global_step' = global_step + 1
    /\ progress_before_eval' = <<>>
    /\ NextBatch
    /\ UNCHANGED <<config, setup, examples_since_last_logged, accel_step,
                   sync_gradients, training, eval_i, num_eval_examples,
                   logged, final_saves, locals>>

\* Save the final trained checkpoint
Final ==
    /\ pc = "final"
    /\ final_saves' = IF config.is_main_process THEN final_saves + 1 ELSE final_saves
    /\ pc' = "done"
    /\ UNCHANGED <<config, setup, epoch, batch_idx, global_step,
                   examples_since_last_logged, accel_step, sync_gradients, training,
                   eval_i, num_eval_examples, progress_before_eval, logged,
                   checkpoints, locals>>

Next ==
    \/ Setup
    \/ TrainStep
    \/ OptimizerStep
    \/ EvalStep
    \/ EvalNext
    \/ SaveStep
    \/ Final

Spec == Init /\ [][Next]_vars
SpecLoop == InitLoop /\ [][Next]_vars

----------------------------------------------------------------------------
\* Properties.

InTrainStep == input_ids # <<>>
Images == 1..config.batch_size
Positions == 1..config.seq_len

\* clamp(round(L x p), 1, L)
ExpectedMasked(L, p) == Min(Max(round(L * p, Unit), 1), L)

MaskedSlots(i) == {j \in Positions : input_ids[i][j + 1] = mask_id}

\* C1: for a token length L >= 1, the number of positions of each image (class
\* slot excluded) whose input id is the mask token id is
\* clamp(round(L x mask_prob), 1, L).
C1_MaskedCount ==
    InTrainStep /\ config.seq_len >= 1 =>
        \A i \in Images :
            Cardinality(MaskedSlots(i)) = ExpectedMasked(config.seq_len, mask_prob[i])

\* C2: at every token position, an input equal to the mask token id carries the
\* original token as its label; any other input is the original token and its
\* label is the ignore label.
C2_LabelsMatchInputs ==
    InTrainStep =>
        \A i \in Images : \A j \in Positions :
            IF input_ids[i][j + 1] = mask_id
            THEN labels[i][j + 1] = image_tokens[i][j]
            ELSE /\ labels[i][j + 1] = IgnoreLabel
                 /\ input_ids[i][j + 1] = image_tokens[i][j]

\* C3: input and label sequences have shape (N, L+1); slot 0 of the input is
\* class_id + V and slot 0 of the labels is the ignore label; slots 1..L carry
\* the masked-token entries in their original order.
C3_ClassSlotAndShape ==
    InTrainStep =>
        /\ Len(input_ids) = config.batch_size
        /\ Len(labels) = config.batch_size
        /\ \A i \in Images :
            /\ Len(input_ids[i]) = config.seq_len + 1
            /\ Len(labels[i]) = config.seq_len + 1
            /\ input_ids[i][1] = class_id[i] + config.num_embeddings
            /\ labels[i][1] = IgnoreLabel
            /\ \A j \in Positions :
                /\ input_ids[i][j + 1] = IF mask[i][j] THEN mask_id ELSE image_tokens[i][j]
                /\ labels[i][j + 1] = IF mask[i][j] THEN image_tokens[i][j] ELSE IgnoreLabel

C3_Witness ==
    /\ InTrainStep
    /\ config.batch_size = 2
    /\ config.seq_len = 2
    /\ class_id[1] # class_id[2]
    /\ mask[1] = <<TRUE, FALSE>>
    /\ mask[2] = <<TRUE, TRUE>>
    /\ image_tokens[1] = <<0, 1>>

\* C4: with a token length of 0 no training example is built and handed to the
\* model.
C4_EmptySequenceRejected == config.seq_len = 0 => ~InTrainStep

\* C5: no train_step runs with a mask token id inside the token id range [0, V).
C5_MaskIdOutsideVocab ==
    InTrainStep => mask_id \notin 0..(config.num_embeddings - 1)

\* C6: for a floor min_masking_rate in [0, 1), mask_prob is at least the floor
\* and at most 1, and for the timestep drawn it does not decrease when the floor
\* is raised.
C6_MaskProbFloor ==
    InTrainStep /\ config.min_masking_rate < Unit =>
        \A i \in Images :
            /\ mask_prob[i] >= config.min_masking_rate
            /\ mask_prob[i] <= Unit
            /\ \A r \in MinMaskingRates :
                /\ r >= config.min_masking_rate =>
                    clip(cosine_schedule(timesteps[i]), r) >= mask_prob[i]
                /\ r <= config.min_masking_rate =>
                    clip(cosine_schedule(timesteps[i]), r) <= mask_prob[i]

C6_Witness ==
    /\ InTrainStep
    /\ config.batch_size = 2
    /\ config.min_masking_rate = 50
    /\ cosine_schedule(timesteps[1]) < 50
    /\ mask_prob[1] = 50
    /\ mask_prob[2] = 71

\* C8: the optimizer is constructed with the scaled learning rate when scale_lr
\* is set, and with the configured learning rate otherwise.
C8_OptimizerLearningRate ==
    pc # "setup" =>
        optimizer_lr =
            IF config.scale_lr
            THEN config.learning_rate * config.batch_size * config.num_processes
                 * config.gradient_accumulation_steps
            ELSE config.learning_rate

\* C9: when the eval loop has ended, global_step, examples_since_last_logged and
\* the gradient-accumulation position are what they were when it started.
C9_EvalKeepsProgress ==
    pc = "save" /\ progress_before_eval # <<>> =>
        <<global_step, examples_since_last_logged, accel_step>> = progress_before_eval

\* the multiples of save_every below n, in increasing order
MultiplesBelow(every, n) ==
    [k \in 1..((n + every - 1) \div every) |-> (k - 1) * every]

C10_Checkpoints ==
    /\ checkpoints = IF config.is_main_process
                     THEN MultiplesBelow(config.save_every, global_step)
                     ELSE <<>>
    /\ final_saves = IF pc = "done" /\ config.is_main_process THEN 1 ELSE 0
    /\ pc = "setup" => global_step = 0

C10_StepRule ==
    /\ pc = "backward" /\ ~sync_gradients =>
        global_step' = global_step /\ pc' \in {"train", "final"}
    /\ pc = "backward" /\ sync_gradients =>
        global_step' = global_step /\ pc' \in {"eval", "save"}
    /\ pc \in {"eval", "eval_next"} =>
        global_step' = global_step /\ pc' \in {"eval", "eval_next", "save"}
    /\ pc = "save" => global_step' = global_step + 1 /\ pc' \in {"train", "final"}
    /\ pc \notin {"backward", "eval", "eval_next", "save"} => global_step' = global_step

\* C10: global_step starts at 0 and grows by exactly 1 per training batch on
\* which gradients were synchronised, and on no other; the checkpoints saved are
\* exactly the multiples of save_every below global_step, in increasing order,
\* saved by the main process only; the final model is saved once, by the main
\* process, after the last epoch.
C10_StepsAndCheckpoints == []C10_Checkpoints /\ [][C10_StepRule]_vars

C10_Witness ==
    /\ pc = "done"
    /\ config.gradient_accumulation_steps = 2
    /\ config.save_every = 2
    /\ config.max_eval_examples = 2
    /\ checkpoints = <<0, 2>>
    /\ final_saves = 1

====
